---- MODULE Spec2Model ----
(***************************************************************************)
(* Word-search puzzle generator (src/src/generator.rs).                    *)
(*                                                                         *)
(* Characters are their ASCII codes (' ' = 32, 'A' = 65, 'a' = 97), a word *)
(* is a sequence of codes, the puzzle is a sequence of rows, each a        *)
(* sequence of codes.  Rust indexes from 0 and TLA+ sequences from 1, so   *)
(* the cell of Coordinate (row, column) is puzzle[row + 1][column + 1].    *)
(***************************************************************************)
EXTENDS Integers, Sequences, FiniteSets

\* ------------------------------------------------------------------ bounds
\* A puzzle has at most MaxCells cells (width * height <= MaxCells), and a
\* side is at most MaxCells long: 1x1 .. 1x4, 4x1 and 2x2 at MaxCells = 4.
MaxCells == 4
\* The list of words has at most MaxWords entries.
MaxWords == 2

\* The words a list is made of: "", "a", "aB", "BaB".
Vocabulary ==
  { <<>>, <<97>>, <<97, 66>>, <<66, 97, 66>> }

\* Outcomes of rng.gen_range(0..26) the model follows: 'A', 'B' and 'Z'.
FillChoices == {0, 1, 25}

\* ------------------------------------------------------------- characters
Blank == 32

ASCII_A == 65

IsLowerLetter(ch) == 97 <= ch /\ ch <= 122

char_to_uppercase(ch) == IF IsLowerLetter(ch) THEN ch - 32 ELSE ch

to_uppercase(word) == [i \in 1..Len(word) |-> char_to_uppercase(word[i])]

\* -------------------------------------------------------------- Direction
Up == 1
Down == 2
Left == 3
Right == 4
UpLeft == 5
UpRight == 6
DownLeft == 7
DownRight == 8

Directions == {Up, Down, Left, Right, UpLeft, UpRight, DownLeft, DownRight}

\* Option<Direction>::None
None == 0

\* from_number without its arm for 8.
from_number_up_to_7(number) == IF number \in 1..7 THEN number ELSE None

from_number(number) == IF number \in 1..8 THEN number ELSE None

\* get_next_direction stepping two directions on.
get_next_direction_skips_one(direction) ==
  LET next == from_number(direction + 2)
  IN  IF next = None THEN Up ELSE next

\* get_next_direction wrapping from DownRight to Down.
get_next_direction_wraps_to_down(direction) ==
  LET next == from_number(direction + 1)
  IN  IF next = None THEN Down ELSE next

get_next_direction(direction) ==
  LET next == from_number(direction + 1)
  IN  IF next = None THEN Up ELSE next

\* ------------------------------------------------------------- Coordinate
Coordinate(row, column) == [row |-> row, column |-> column]

\* get_next_coordinate with Left stepping to the next column.
get_next_coordinate_left_is_right(c, direction) ==
  CASE direction = Up        -> Coordinate(c.row - 1, c.column)
    [] direction = Down      -> Coordinate(c.row + 1, c.column)
    [] direction = Left      -> Coordinate(c.row, c.column + 1)
    [] direction = Right     -> Coordinate(c.row, c.column + 1)
    [] direction = UpLeft    -> Coordinate(c.row - 1, c.column - 1)
    [] direction = UpRight   -> Coordinate(c.row - 1, c.column + 1)
    [] direction = DownLeft  -> Coordinate(c.row + 1, c.column - 1)
    [] direction = DownRight -> Coordinate(c.row + 1, c.column + 1)

get_next_coordinate(c, direction) ==
  CASE direction = Up        -> Coordinate(c.row - 1, c.column)
    [] direction = Down      -> Coordinate(c.row + 1, c.column)
    [] direction = Left      -> Coordinate(c.row, c.column - 1)
    [] direction = Right     -> Coordinate(c.row, c.column + 1)
    [] direction = UpLeft    -> Coordinate(c.row - 1, c.column - 1)
    [] direction = UpRight   -> Coordinate(c.row - 1, c.column + 1)
    [] direction = DownLeft  -> Coordinate(c.row + 1, c.column - 1)
    [] direction = DownRight -> Coordinate(c.row + 1, c.column + 1)

\* get_next_coordinate_for_size with width and height exchanged.
get_next_coordinate_for_size_swapped(c, w, h) ==
  IF c.column + 1 < h THEN Coordinate(c.row, c.column + 1)
  ELSE IF c.row + 1 < w THEN Coordinate(c.row + 1, 0)
  ELSE Coordinate(0, 0)

\* get_next_coordinate_for_size without the step to the next row.
get_next_coordinate_for_size_one_row(c, w, h) ==
  IF c.column + 1 < w THEN Coordinate(c.row, c.column + 1)
  ELSE Coordinate(0, 0)

get_next_coordinate_for_size(c, w, h) ==
  IF c.column + 1 < w THEN Coordinate(c.row, c.column + 1)
  ELSE IF c.row + 1 < h THEN Coordinate(c.row + 1, 0)
  ELSE Coordinate(0, 0)

valid(c, w, h) ==
  c.row >= 0 /\ c.row < h /\ c.column >= 0 /\ c.column < w

\* ------------------------------------------------------------------ puzzle
\* generate_empty_puzzle with width and height exchanged.
generate_empty_puzzle_transposed(w, h) == [r \in 1..w |-> [c \in 1..h |-> Blank]]

generate_empty_puzzle(w, h) == [r \in 1..h |-> [c \in 1..w |-> Blank]]

\* puzzle.len() and puzzle[0].len(); the latter is only evaluated on a
\* puzzle with at least one row.
puzzle_height(p) == Len(p)

puzzle_width(p) == Len(p[1])

cell(p, c) == p[c.row + 1][c.column + 1]

\* word_fits ending its recursion at word_length <= 1: the last cell of the
\* run is not tested.
RECURSIVE word_fits_skips_last(_, _, _, _)
word_fits_skips_last(p, c, direction, word_length) ==
  \/ word_length <= 1
  \/ /\ valid(c, puzzle_width(p), puzzle_height(p))
     /\ cell(p, c) = Blank
     /\ word_fits_skips_last(p, get_next_coordinate(c, direction), direction,
                             word_length - 1)

\* word_fits with word_length < 0 for word_length <= 0: also the empty word
\* needs a blank in-bounds cell.
word_fits_empty_needs_cell(p, c, direction, word_length) ==
  \/ word_length < 0
  \/ /\ valid(c, puzzle_width(p), puzzle_height(p))
     /\ cell(p, c) = Blank
     /\ \A k \in 1..(word_length - 1) :
          LET step == get_next_coordinate(c, direction)
              ck == Coordinate(c.row + k * (step.row - c.row),
                               c.column + k * (step.column - c.column))
          IN  valid(ck, puzzle_width(p), puzzle_height(p)) /\ cell(p, ck) = Blank

\* word_fits without its recursive call: only the first cell is tested.
word_fits_first_cell(p, c, direction, word_length) ==
  \/ word_length <= 0
  \/ /\ valid(c, puzzle_width(p), puzzle_height(p))
     /\ cell(p, c) = Blank

\* word_fits without the test of the cell: any in-bounds run fits.
RECURSIVE word_fits_in_bounds(_, _, _, _)
word_fits_in_bounds(p, c, direction, word_length) ==
  \/ word_length <= 0
  \/ /\ valid(c, puzzle_width(p), puzzle_height(p))
     /\ word_fits_in_bounds(p, get_next_coordinate(c, direction), direction,
                            word_length - 1)

RECURSIVE word_fits(_, _, _, _)
word_fits(p, c, direction, word_length) ==
  \/ word_length <= 0
  \/ /\ valid(c, puzzle_width(p), puzzle_height(p))
     /\ cell(p, c) = Blank
     /\ word_fits(p, get_next_coordinate(c, direction), direction, word_length - 1)

\* place_word without its recursive call: only the first character is written.
place_word_first_only(p, c, direction, word) ==
  IF word # <<>>
    THEN [p EXCEPT ![c.row + 1][c.column + 1] = Head(word)]
    ELSE p

RECURSIVE place_word(_, _, _, _)
place_word(p, c, direction, word) ==
  IF word # <<>>
    THEN place_word([p EXCEPT ![c.row + 1][c.column + 1] = Head(word)],
                    get_next_coordinate(c, direction), direction, Tail(word))
    ELSE p

\* generate_random_character with the offset of 'B'.
generate_random_character_from_b(random_number) == random_number + 66

\* generate_random_character, given the outcome of rng.gen_range(0..26).
generate_random_character(random_number) == random_number + ASCII_A

BlankCells(p) ==
  { rc \in (1..Len(p)) \X (1..(IF Len(p) = 0 THEN 0 ELSE Len(p[1]))) :
      p[rc[1]][rc[2]] = Blank }

\* remove_empty_spots, given the random number drawn for each blank cell.
remove_empty_spots(p, rnd) ==
  [r \in 1..Len(p) |->
    [c \in 1..Len(p[r]) |->
      IF p[r][c] = Blank THEN generate_random_character(rnd[<<r, c>>])
                         ELSE p[r][c]]]

\* gen_range over the inclusive range low..=high.
gen_range_inclusive(low, high) == low..high

\* rng.gen_range(low..high): the values it can return; it panics on an
\* empty range, which is the empty set here.
gen_range(low, high) == low..(high - 1)

\* The start coordinates line 170 can draw; puzzle[0] panics on a puzzle
\* without rows, as gen_range does on an empty range: no coordinate then.
start_coordinates(p) ==
  IF gen_range(0, puzzle_height(p)) = {} \/ puzzle_height(p) = 0 THEN {}
  ELSE { Coordinate(r, c) : r \in gen_range(0, puzzle_height(p)),
                            c \in gen_range(0, puzzle_width(p)) }

start_directions == { from_number(n) : n \in 1..8 }

\* The while loop has no bound of its own.  The model follows it for
\* LoopLimit(p) fit tests, more than one full sweep, and reports a loop that
\* is still running then as returned = FALSE.
LoopLimit(p) == 8 * puzzle_width(p) * puzzle_height(p) + 8

\* The while loop of add_word_to_puzzle, from the pair (c, direction), with
\* the pairs already tested.  returned: the loop was left; value: what
\* add_word_to_puzzle returns; coordinate, direction: the loop variables then.
RECURSIVE search(_, _, _, _, _, _, _)
search(p, word_length, oc, od, c, direction, tested) ==
  LET now == Append(tested, <<c, direction>>)
      next_direction == get_next_direction(direction)
      next_coordinate ==
        get_next_coordinate_for_size(c, puzzle_width(p), puzzle_height(p))
  IN  IF word_fits(p, c, direction, word_length)
        THEN [returned |-> TRUE, value |-> TRUE, coordinate |-> c,
              direction |-> direction, tested |-> now]
      ELSE IF Len(now) >= LoopLimit(p)
        THEN [returned |-> FALSE, value |-> FALSE, coordinate |-> c,
              direction |-> direction, tested |-> now]
      ELSE IF next_direction = od
        THEN IF next_coordinate = oc
               THEN [returned |-> TRUE, value |-> FALSE,
                     coordinate |-> next_coordinate,
                     direction |-> next_direction, tested |-> now]
               ELSE search(p, word_length, oc, od, next_coordinate,
                           next_direction, now)
      ELSE search(p, word_length, oc, od, c, next_direction, now)

\* add_word_to_puzzle for the start pair (oc, od) the random source gave.
add_word_to_puzzle(p, word, oc, od) ==
  LET s == search(p, Len(word), oc, od, oc, od, <<>>)
  IN  [returned |-> s.returned, value |-> s.value,
       coordinate |-> s.coordinate, direction |-> s.direction,
       tested |-> s.tested,
       puzzle |-> IF s.value
                    THEN place_word(p, s.coordinate, s.direction, word)
                    ELSE p]

\* push_not_added pushing the uppercased copy given to add_word_to_puzzle.
push_not_added_uppercased(not_added, word, was_added) ==
  IF ~was_added THEN Append(not_added, to_uppercase(word)) ELSE not_added

\* One turn of the for loop of add_words_to_puzzle, after the call returned.
push_not_added(not_added, word, was_added) ==
  IF ~was_added THEN Append(not_added, word) ELSE not_added

\* ------------------------------------------------------------------ inputs
RECURSIVE ListsUpTo(_)
ListsUpTo(n) ==
  IF n = 0 THEN { <<>> }
  ELSE LET shorter == ListsUpTo(n - 1)
       IN  shorter \cup { Append(l, w) : l \in { s \in shorter : Len(s) = n - 1 },
                                         w \in Vocabulary }

WordLists == ListsUpTo(MaxWords)

Sizes ==
  { wh \in (0..MaxCells) \X (0..MaxCells) : wh[1] * wh[2] <= MaxCells }

\* ------------------------------------------------------------------- state
VARIABLES
  width, height, words,   \* the arguments of generate_puzzle
  pc,                     \* where generate_puzzle is
  puzzle,                 \* the grid
  word_index,             \* the word the for loop of add_words_to_puzzle is at
  words_not_added,        \* its result so far
  result,                 \* what generate_puzzle returned, NoResult before
  \* the last call of add_word_to_puzzle, while the for loop holds its result
  original_coordinate, original_direction, coordinate, direction,
  value,                  \* what it returned
  tested,                 \* the pairs it gave to word_fits, in order
  \* history, read by the properties only
  added,                  \* what each call of add_word_to_puzzle returned
  before,                 \* the grid before each attempt and before the filler
  \* a function of generator.rs called on its own
  unit,                   \* the call and what it returned, NoUnit without one
  \* the component App of client.rs
  app,                    \* its use_state values
  dom,                    \* the text of its two DimensionInput fields
  submit                  \* history: what the last submit found and did

vars == <<width, height, words, pc, puzzle, word_index, words_not_added,
          result, original_coordinate, original_direction, coordinate,
          direction, value, tested, added, before, unit, app, dom, submit>>

NoResult == <<>>

NoCoordinate == Coordinate(-1, -1)

locals == <<original_coordinate, original_direction, coordinate, direction,
            value, tested>>

inputs == <<width, height, words>>

NoUnit == <<>>

NoSubmit == <<>>

\* App as use_state creates it (client.rs lines 93-99).
NewApp ==
  [placed_words |-> <<>>, puzzle_state |-> <<>>, width |-> <<>>,
   height |-> <<>>, error |-> "", words |-> <<>>]

\* The two input elements as the page shows them first.
NewDom == [width |-> <<>>, height |-> <<>>]

\* What generate_puzzle does not touch.
others == <<unit, app, dom, submit>>

OthersIdle ==
  /\ unit = NoUnit
  /\ app = NewApp
  /\ dom = NewDom
  /\ submit = NoSubmit

\* The locals of add_word_to_puzzle are gone once its result is used.
DropLocals ==
  /\ original_coordinate' = NoCoordinate
  /\ original_direction' = None
  /\ coordinate' = NoCoordinate
  /\ direction' = None
  /\ value' = FALSE
  /\ tested' = <<>>

Init ==
  /\ \E wh \in Sizes : width = wh[1] /\ height = wh[2]
  /\ words \in WordLists
  /\ pc = "generate_empty_puzzle"
  /\ puzzle = <<>>
  /\ word_index = 1
  /\ words_not_added = <<>>
  /\ result = NoResult
  /\ original_coordinate = NoCoordinate
  /\ original_direction = None
  /\ coordinate = NoCoordinate
  /\ direction = None
  /\ value = FALSE
  /\ tested = <<>>
  /\ added = <<>>
  /\ before = <<>>
  /\ OthersIdle

\* generator.rs line 5
GenerateEmptyPuzzle ==
  /\ pc = "generate_empty_puzzle"
  /\ puzzle' = generate_empty_puzzle(width, height)
  /\ pc' = "for_word"
  /\ UNCHANGED <<others, inputs, word_index, words_not_added, result, locals, added,
                 before>>

\* Line 150, a call of add_word_to_puzzle that panics at line 170.
AddWordPanics ==
  /\ pc = "for_word"
  /\ word_index <= Len(words)
  /\ start_coordinates(puzzle) = {}
  /\ pc' = "panicked"
  /\ before' = Append(before, puzzle)
  /\ UNCHANGED <<others, inputs, puzzle, word_index, words_not_added, result, locals,
                 added>>

\* What the calls of add_word_to_puzzle for the current word can return, one
\* per start pair the random source can give.
Attempts ==
  { <<oc, od, add_word_to_puzzle(puzzle, to_uppercase(words[word_index]), oc, od)>> :
      oc \in start_coordinates(puzzle), od \in start_directions }

\* Line 150, the call add_word_to_puzzle(puzzle, &word.to_uppercase()).
AddWordToPuzzle ==
  /\ pc = "for_word"
  /\ word_index <= Len(words)
  /\ \E a \in Attempts :
       /\ original_coordinate' = a[1]
       /\ original_direction' = a[2]
       /\ puzzle' = a[3].puzzle
       /\ coordinate' = a[3].coordinate
       /\ direction' = a[3].direction
       /\ tested' = a[3].tested
       /\ value' = a[3].value
       /\ pc' = IF a[3].returned THEN "add_word_returned" ELSE "looping"
       /\ added' = IF a[3].returned THEN Append(added, a[3].value) ELSE added
  /\ before' = Append(before, puzzle)
  /\ UNCHANGED <<others, inputs, word_index, words_not_added, result>>

\* Lines 150-153, the rest of the turn of the for loop.
NextWord ==
  /\ pc = "add_word_returned"
  /\ words_not_added' = push_not_added(words_not_added, words[word_index], value)
  /\ word_index' = word_index + 1
  /\ pc' = "for_word"
  /\ DropLocals
  /\ UNCHANGED <<others, inputs, puzzle, result, added, before>>

WordAdded == value /\ NextWord

WordNotAdded == ~value /\ NextWord

\* generator.rs lines 7-9: the filler, then the return.
RemoveEmptySpots ==
  /\ pc = "for_word"
  /\ word_index > Len(words)
  /\ \E rnd \in [BlankCells(puzzle) -> FillChoices] :
       /\ puzzle' = remove_empty_spots(puzzle, rnd)
       /\ result' = [puzzle |-> puzzle', words_not_placed |-> words_not_added]
  /\ before' = Append(before, puzzle)
  /\ pc' = "done"
  /\ UNCHANGED <<others, inputs, word_index, words_not_added, locals, added>>

Next ==
  \/ GenerateEmptyPuzzle
  \/ AddWordPanics
  \/ AddWordToPuzzle
  \/ WordAdded
  \/ WordNotAdded
  \/ RemoveEmptySpots

Spec == Init /\ [][Next]_vars

\* ------------------------------------------- functions called on their own
generator_vars ==
  <<width, height, words, pc, puzzle, word_index, words_not_added, result,
    original_coordinate, original_direction, coordinate, direction, value,
    tested, added, before>>

\* No call of generate_puzzle is running, and none has run.
GeneratorIdle ==
  /\ width = 0 /\ height = 0 /\ words = <<>>
  /\ pc = "idle"
  /\ puzzle = <<>>
  /\ word_index = 1
  /\ words_not_added = <<>>
  /\ result = NoResult
  /\ original_coordinate = NoCoordinate
  /\ original_direction = None
  /\ coordinate = NoCoordinate
  /\ direction = None
  /\ value = FALSE
  /\ tested = <<>>
  /\ added = <<>>
  /\ before = <<>>

\* The grids of w columns and h rows whose cells are blank or hold 'A'.
GridsOfSize(w, h) == [1..h -> [1..w -> {Blank, ASCII_A}]]

\* The grids word_fits is called on: every grid with a row and at most
\* MaxCells cells, and the blank 10x10 grid of it_knows_if_a_word_fits.
UnitGrids ==
  UNION { GridsOfSize(wh[1], wh[2]) : wh \in { s \in Sizes : s[2] >= 1 } }
    \cup { generate_empty_puzzle(10, 10) }

\* The coordinates of a grid and the ring of coordinates around it.
CoordinatesAround(p) ==
  { Coordinate(r, c) : r \in (-1)..Len(p), c \in (-1)..Len(p[1]) }

\* The word lengths word_fits is called with on p: up to one more than its
\* longer side.
UnitLengths(p) ==
  0..((IF Len(p) > Len(p[1]) THEN Len(p) ELSE Len(p[1])) + 1)

InitUnit ==
  /\ GeneratorIdle
  /\ OthersIdle

\* word_fits(&puzzle, &coordinate, &direction, word_length)
CallWordFits ==
  /\ unit = NoUnit
  /\ \E p \in UnitGrids :
       \E c \in CoordinatesAround(p), d \in Directions, n \in UnitLengths(p) :
         unit' = [function |-> "word_fits", puzzle |-> p, coordinate |-> c,
                  direction |-> d, word_length |-> n,
                  returned |-> word_fits(p, c, d, n)]
  /\ UNCHANGED <<generator_vars, app, dom, submit>>

\* word_fits with word_length 0 on a puzzle without rows: puzzle[0] is not
\* read.
CallWordFitsNoRows ==
  /\ unit = NoUnit
  /\ \E c \in CoordinatesAround(<< <<>> >>), d \in Directions :
       unit' = [function |-> "word_fits", puzzle |-> <<>>, coordinate |-> c,
                direction |-> d, word_length |-> 0,
                returned |-> word_fits(<<>>, c, d, 0)]
  /\ UNCHANGED <<generator_vars, app, dom, submit>>

\* A first direction, to call get_next_direction on.
StartDirection ==
  /\ unit = NoUnit
  /\ \E d \in Directions :
       unit' = [function |-> "get_next_direction", start |-> d,
                direction |-> d, steps |-> 0, visited |-> <<d>>]
  /\ UNCHANGED <<generator_vars, app, dom, submit>>

\* direction = direction.get_next_direction(), up to 8 times.
AdvanceDirection ==
  /\ unit # NoUnit
  /\ unit.function = "get_next_direction"
  /\ unit.steps < 8
  /\ unit' = [unit EXCEPT !.direction = get_next_direction(unit.direction),
                          !.steps = @ + 1,
                          !.visited = Append(@, get_next_direction(unit.direction))]
  /\ UNCHANGED <<generator_vars, app, dom, submit>>

\* A size with width, height >= 1 and a coordinate inside it, to call
\* get_next_coordinate_for_size on.
StartCoordinate ==
  /\ unit = NoUnit
  /\ \E wh \in { s \in Sizes : s[1] >= 1 /\ s[2] >= 1 } :
       \E r \in 0..(wh[2] - 1), c \in 0..(wh[1] - 1) :
         unit' = [function |-> "get_next_coordinate_for_size",
                  width |-> wh[1], height |-> wh[2],
                  start |-> Coordinate(r, c), coordinate |-> Coordinate(r, c),
                  steps |-> 0, visited |-> <<Coordinate(r, c)>>]
  /\ UNCHANGED <<generator_vars, app, dom, submit>>

\* coordinate = coordinate.get_next_coordinate_for_size(width, height), up
\* to width * height times.
AdvanceCoordinate ==
  /\ unit # NoUnit
  /\ unit.function = "get_next_coordinate_for_size"
  /\ unit.steps < unit.width * unit.height
  /\ LET next == get_next_coordinate_for_size(unit.coordinate, unit.width,
                                              unit.height)
     IN  unit' = [unit EXCEPT !.coordinate = next,
                              !.steps = @ + 1,
                              !.visited = Append(@, next)]
  /\ UNCHANGED <<generator_vars, app, dom, submit>>

NextUnit ==
  \/ CallWordFits
  \/ CallWordFitsNoRows
  \/ StartDirection
  \/ AdvanceDirection
  \/ StartCoordinate
  \/ AdvanceCoordinate

SpecUnit == InitUnit /\ [][NextUnit]_vars

\* --------------------------------------------------------------- the client
\* Texts are sequences of character codes, as the words are.
NewLine == 10
Plus == 43
Minus == 45
Digit0 == 48
I16Min == -32768
I16Max == 32767

\* The min and max attributes of the input element of DimensionInput.
MinDimension == 1
MaxDimension == 100

\* The texts typed into the width field and into the height field:
\* nothing, "x", "0", "1", "2".
WidthTexts == { <<>>, <<120>>, <<48>>, <<49>>, <<50>> }
HeightTexts == { <<>>, <<120>>, <<49>> }

\* The texts of the textarea: "", "a", "a\na", "aB\na", "\na".
WordTexts ==
  { <<>>, <<97>>, <<97, 10, 97>>, <<97, 66, 10, 97>>, <<10, 97>> }

\* str::lines: the text split at its '\n'; a last line needs none. (The
\* value of a textarea has '\n' as its only line break.)
RECURSIVE lines(_)
lines(text) ==
  IF text = <<>> THEN <<>>
  ELSE LET ends == { i \in 1..Len(text) : text[i] = NewLine }
           end == IF ends = {} THEN Len(text) + 1
                  ELSE CHOOSE i \in ends : \A j \in ends : i <= j
       IN  <<SubSeq(text, 1, end - 1)>>
             \o lines(SubSeq(text, end + 1, Len(text)))

IsDigit(ch) == ch \in Digit0..(Digit0 + 9)

RECURSIVE digits_value(_)
digits_value(digits) ==
  IF digits = <<>> THEN 0
  ELSE digits_value(SubSeq(digits, 1, Len(digits) - 1)) * 10
         + (digits[Len(digits)] - Digit0)

Err == [ok |-> FALSE, value |-> 0]

Ok(number) == [ok |-> TRUE, value |-> number]

\* str::parse::<i16>: an optional sign, then one or more digits, the number
\* within i16.
parse_i16(text) ==
  LET signed == text # <<>> /\ text[1] \in {Plus, Minus}
      digits == IF signed THEN Tail(text) ELSE text
      number == IF signed /\ text[1] = Minus THEN 0 - digits_value(digits)
                ELSE digits_value(digits)
  IN  IF \/ digits = <<>>
         \/ \E i \in 1..Len(digits) : ~IsDigit(digits[i])
         \/ number < I16Min
         \/ number > I16Max
        THEN Err
      ELSE Ok(number)

RECURSIVE natural_to_string(_)
natural_to_string(n) ==
  IF n < 10 THEN <<Digit0 + n>>
  ELSE Append(natural_to_string(n \div 10), Digit0 + (n % 10))

\* i16::to_string
to_string(n) ==
  IF n < 0 THEN <<Minus>> \o natural_to_string(0 - n)
  ELSE natural_to_string(n)

\* The text is a number as an input of type number takes one (whole numbers
\* here): an optional '-', then digits.
IsNumber(text) ==
  LET digits == IF text # <<>> /\ text[1] = Minus THEN Tail(text) ELSE text
  IN  digits # <<>> /\ \A i \in 1..Len(digits) : IsDigit(digits[i])

\* HtmlInputElement::value of an input of type number: the text when it
\* is a number, else the empty string.
input_value(text) == IF IsNumber(text) THEN text ELSE <<>>

\* The input element accepts the form's submission: it is empty (it is
\* not required), or holds a number from min to max. With a text that is no
\* number, or a number out of this range, the browser does not fire the
\* submit event.
ConstraintsSatisfied(text) ==
  \/ text = <<>>
  \/ /\ IsNumber(text)
     /\ text[1] # Minus
     /\ digits_value(text) \in MinDimension..MaxDimension

\* failed_words.contains(&&word[..])
contains(failed_words, word) ==
  \E i \in 1..Len(failed_words) : failed_words[i] = word

\* Lines 122-125: the words that are not among the failed ones, uppercased.
filter_placed(split_words, failed_words) ==
  LET kept == SelectSeq(split_words,
                        LAMBDA word : ~contains(failed_words, word))
  IN  [i \in 1..Len(kept) |-> to_uppercase(kept[i])]

InitClient ==
  /\ GeneratorIdle
  /\ OthersIdle

\* oninput of DimensionInput, lines 71-80, then the on_entry callback: the
\* state of App after the field has got this text.
on_input(state, field, text) ==
  LET parsed == parse_i16(input_value(text))
  IN  IF parsed.ok
        THEN [state EXCEPT !.error = "", ![field] = to_string(parsed.value)]
      ELSE state

\* An input event of the width field; on_width_change, lines 145-152.
OnWidthChange ==
  /\ pc = "idle"
  /\ \E text \in WidthTexts :
       /\ text # dom.width
       /\ dom' = [dom EXCEPT !.width = text]
       /\ app' = on_input(app, "width", text)
  /\ submit' = NoSubmit
  /\ UNCHANGED <<generator_vars, unit>>

\* An input event of the height field; on_height_change, lines 136-143.
OnHeightChange ==
  /\ pc = "idle"
  /\ \E text \in HeightTexts :
       /\ text # dom.height
       /\ dom' = [dom EXCEPT !.height = text]
       /\ app' = on_input(app, "height", text)
  /\ submit' = NoSubmit
  /\ UNCHANGED <<generator_vars, unit>>

\* on_words_change, lines 154-164
OnWordsChange ==
  /\ pc = "idle"
  /\ \E text \in WordTexts :
       /\ text # app.words
       /\ app' = [app EXCEPT !.words = text, !.error = ""]
  /\ submit' = NoSubmit
  /\ UNCHANGED <<generator_vars, unit, dom>>

\* The form fires its submit event.
SubmitEvent ==
  /\ pc = "idle"
  /\ ConstraintsSatisfied(dom.width)
  /\ ConstraintsSatisfied(dom.height)

\* onsubmit, lines 111-117: width or height does not parse.
OnSubmitInvalid ==
  /\ SubmitEvent
  /\ parse_i16(app.height).ok = FALSE \/ parse_i16(app.width).ok = FALSE
  /\ app' = [app EXCEPT !.error = "Invalid width or height",
                        !.puzzle_state = <<>>,
                        !.placed_words = <<>>]
  /\ submit' = [fields |-> dom, invoked |-> FALSE, returned |-> FALSE,
                width |-> 0, height |-> 0, words |-> <<>>, added |-> <<>>]
  /\ UNCHANGED <<generator_vars, unit, dom>>

\* onsubmit, lines 111-120: both parse, generate_puzzle is called.
OnSubmitGenerate ==
  /\ SubmitEvent
  /\ parse_i16(app.height).ok
  /\ parse_i16(app.width).ok
  /\ width' = parse_i16(app.width).value
  /\ height' = parse_i16(app.height).value
  /\ words' = lines(app.words)
  /\ pc' = "generate_empty_puzzle"
  /\ submit' = [fields |-> dom, invoked |-> TRUE, returned |-> FALSE,
                width |-> width', height |-> height', words |-> words',
                added |-> <<>>]
  /\ UNCHANGED <<puzzle, word_index, words_not_added, result, locals, added,
                 before, unit, app, dom>>

\* onsubmit, lines 120-131: generate_puzzle has returned.
OnSubmitReturned ==
  /\ pc = "done"
  /\ submit # NoSubmit
  /\ app' = [app EXCEPT
               !.puzzle_state = result.puzzle,
               !.placed_words = filter_placed(words, result.words_not_placed),
               !.error = IF result.words_not_placed # <<>>
                           THEN "Could not place all words"
                         ELSE ""]
  /\ submit' = [submit EXCEPT !.returned = TRUE, !.added = added]
  /\ width' = 0 /\ height' = 0 /\ words' = <<>>
  /\ pc' = "idle"
  /\ puzzle' = <<>>
  /\ word_index' = 1
  /\ words_not_added' = <<>>
  /\ result' = NoResult
  /\ DropLocals
  /\ added' = <<>>
  /\ before' = <<>>
  /\ UNCHANGED <<unit, dom>>

NextClient ==
  \/ OnWidthChange
  \/ OnHeightChange
  \/ OnWordsChange
  \/ OnSubmitInvalid
  \/ OnSubmitGenerate
  \/ OnSubmitReturned
  \/ GenerateEmptyPuzzle
  \/ AddWordPanics
  \/ AddWordToPuzzle
  \/ WordAdded
  \/ WordNotAdded
  \/ RemoveEmptySpots

SpecClient == InitClient /\ [][NextClient]_vars

\* ------------------------------------------------ vocabulary of the claims
\* The unit step of a direction, as (row, column) deltas.
DeltaRow(d) ==
  IF d \in {Up, UpLeft, UpRight} THEN -1
  ELSE IF d \in {Down, DownLeft, DownRight} THEN 1 ELSE 0

DeltaColumn(d) ==
  IF d \in {Left, UpLeft, DownLeft} THEN -1
  ELSE IF d \in {Right, UpRight, DownRight} THEN 1 ELSE 0

\* The k-th cell (k = 0 is the start) of the run from start along d.
RunCoordinate(start, d, k) ==
  Coordinate(start.row + k * DeltaRow(d), start.column + k * DeltaColumn(d))

Cells(p) ==
  IF Len(p) = 0 THEN {}
  ELSE { Coordinate(r, c) : r \in 0..(Len(p) - 1), c \in 0..(Len(p[1]) - 1) }

InGrid(p, c) == c \in Cells(p)

At(p, c) == p[c.row + 1][c.column + 1]

\* The cells of the run of n cells from start along d.
Run(start, d, n) == { RunCoordinate(start, d, k) : k \in 0..(n - 1) }

\* word is read in p from start along d, one cell per character.
SpelledAt(p, word, start, d) ==
  \A i \in 1..Len(word) :
    /\ InGrid(p, RunCoordinate(start, d, i - 1))
    /\ At(p, RunCoordinate(start, d, i - 1)) = word[i]

Spelled(p, word) ==
  \E start \in Cells(p), d \in Directions : SpelledAt(p, word, start, d)

\* The run of n cells from start along d is inside p and blank.
RunFree(p, start, d, n) ==
  \A c \in Run(start, d, n) : InGrid(p, c) /\ At(p, c) = Blank

Uppercased(word) ==
  [i \in 1..Len(word) |->
     IF word[i] \in 97..122 THEN word[i] - 32 ELSE word[i]]

InSeq(x, seq) == \E i \in 1..Len(seq) : seq[i] = x

HasLetter(p) == \E c \in Cells(p) : At(p, c) # Blank

HasBlank(p) == \E c \in Cells(p) : At(p, c) = Blank

SameShape(p, q) ==
  /\ Len(p) = Len(q)
  /\ \A r \in 1..Len(p) : Len(p[r]) = Len(q[r])

\* The grid before the last operation that appended to the history.
LastBefore == before[Len(before)]

\* The word of the call of add_word_to_puzzle that just returned.
CurrentWord == words[word_index]

\* The input words whose call of add_word_to_puzzle returned false, among
\* the first n, in input order.
RECURSIVE FailedWords(_)
FailedWords(n) ==
  IF n = 0 THEN <<>>
  ELSE IF added[n] THEN FailedWords(n - 1)
  ELSE Append(FailedWords(n - 1), words[n])

\* ------------------------------------------------------------------ claims
\* C1: for width, height >= 1, every input word that generate_puzzle does
\* not return in words_not_placed is spelled, uppercased, in the returned
\* grid along one of the 8 directions from an in-bounds start cell.
C1_PlacedWordsAreSpelled ==
  (pc = "done" /\ width >= 1 /\ height >= 1) =>
    \A i \in 1..Len(words) :
      ~InSeq(words[i], result.words_not_placed) =>
        Spelled(result.puzzle, Uppercased(words[i]))

\* Two non-empty words were placed, the filler filled a cell after them.
C1_Witness ==
  /\ pc = "done"
  /\ Len(words) = 2
  /\ words[1] # <<>> /\ words[2] # <<>>
  /\ added = <<TRUE, TRUE>>
  /\ result.words_not_placed = <<>>
  /\ HasBlank(before[3])

\* C2: add_words_to_puzzle returns exactly the input words whose call of
\* add_word_to_puzzle returned false: the original strings, in input order,
\* one entry per failed occurrence.
C2_NotAddedAreTheFailedWords ==
  /\ pc = "for_word" => words_not_added = FailedWords(word_index - 1)
  /\ pc = "done" => result.words_not_placed = FailedWords(Len(words))

\* The same lower-case word twice, the first placed and the second not.
C2_Witness ==
  /\ pc = "done"
  /\ Len(words) = 2
  /\ words[1] = words[2]
  /\ Uppercased(words[1]) # words[1]
  /\ added = <<TRUE, FALSE>>
  /\ result.words_not_placed = <<words[2]>>

\* C3: a word is written only along a run whose cells are all in-bounds and
\* all blank at that moment (a letter blocks the run, whichever letter it
\* is), and no attempt changes a cell that held a letter before it.
C3_OnlyBlankRunsAreWritten ==
  pc = "add_word_returned" =>
    /\ value => RunFree(LastBefore, coordinate, direction, Len(CurrentWord))
    /\ \A c \in Cells(LastBefore) :
         At(LastBefore, c) # Blank => At(puzzle, c) = At(LastBefore, c)

\* A word was placed on a grid that held a letter the word also needs.
C3_Witness ==
  /\ pc = "add_word_returned"
  /\ value
  /\ CurrentWord # <<>>
  /\ \E c \in Cells(LastBefore) :
       At(LastBefore, c) = Uppercased(CurrentWord)[1]

\* C4: right after add_word_to_puzzle succeeds for a non-empty word, the
\* cells from the chosen coordinate along the chosen direction hold the
\* uppercased word in order, and every cell outside that run is unchanged.
C4_PlacementRoundTrip ==
  (pc = "add_word_returned" /\ value /\ CurrentWord # <<>>) =>
    /\ SpelledAt(puzzle, Uppercased(CurrentWord), coordinate, direction)
    /\ \A c \in Cells(puzzle) \ Run(coordinate, direction, Len(CurrentWord)) :
         At(puzzle, c) = At(LastBefore, c)

\* "aB" was placed leftwards on a grid that already held a letter.
C4_Witness ==
  /\ pc = "add_word_returned"
  /\ value
  /\ CurrentWord = <<97, 66>>
  /\ direction = Left
  /\ HasLetter(LastBefore)

\* C5: after remove_empty_spots no cell is blank, every cell that was blank
\* holds one of 'A'..'Z', every cell that held a letter holds the same
\* letter, and the row count and the row lengths are unchanged.
C5_FillerFillsOnlyBlanks ==
  pc = "done" =>
    /\ SameShape(puzzle, LastBefore)
    /\ \A c \in Cells(LastBefore) :
         /\ At(puzzle, c) # Blank
         /\ At(LastBefore, c) = Blank => At(puzzle, c) \in 65..90
         /\ At(LastBefore, c) # Blank => At(puzzle, c) = At(LastBefore, c)

\* The filler ran on a grid with a letter and a blank, and drew a 'Z'.
C5_Witness ==
  /\ pc = "done"
  /\ HasLetter(LastBefore)
  /\ \E c \in Cells(LastBefore) : At(LastBefore, c) = Blank /\ At(puzzle, c) = 90

\* C6 as stated: generate_puzzle never returns in words_not_placed a word
\* that is spelled (uppercased) somewhere in the returned grid along one of
\* the 8 directions.
C6_NotPlacedNeverSpelled ==
  pc = "done" =>
    \A i \in 1..Len(result.words_not_placed) :
      ~Spelled(result.puzzle, Uppercased(result.words_not_placed[i]))

\* C6, amended: a word returned in words_not_placed is never spelled in the
\* returned grid along a run of cells that were all blank when that word was
\* attempted: every spelling of it goes through a cell that held a letter of
\* an earlier placed word at that moment.
C6_NotPlacedNeverSpelledOnFreeRun ==
  pc = "done" =>
    \A i \in 1..Len(words) :
      ~added[i] =>
        \A start \in Cells(result.puzzle), d \in Directions :
          SpelledAt(result.puzzle, Uppercased(words[i]), start, d) =>
            \E c \in Run(start, d, Len(words[i])) : At(before[i], c) # Blank

\* A word that was not placed is spelled in the returned grid, on a run with
\* a cell the filler filled.
C6_Witness ==
  /\ pc = "done"
  /\ \E i \in 1..Len(words) :
       /\ ~added[i]
       /\ \E start \in Cells(result.puzzle), d \in Directions :
            /\ SpelledAt(result.puzzle, Uppercased(words[i]), start, d)
            /\ \E c \in Run(start, d, Len(words[i])) : At(LastBefore, c) = Blank

\* C7: for width, height >= 1, a word longer than max(width, height) is not
\* placed, whatever the start pair and the words placed before it: its
\* attempt leaves the grid unchanged and it is in words_not_placed.
C7_TooLongWordsAreNotPlaced ==
  (width >= 1 /\ height >= 1) =>
    /\ (pc = "add_word_returned" /\ Len(CurrentWord) > width
          /\ Len(CurrentWord) > height) =>
         ~value /\ puzzle = LastBefore
    /\ pc = "done" =>
         \A i \in 1..Len(words) :
           (Len(words[i]) > width /\ Len(words[i]) > height) =>
             /\ InSeq(words[i], result.words_not_placed)
             /\ before[i + 1] = before[i]

\* "BaB" was attempted on a 2x2 grid after another word was placed.
C7_Witness ==
  /\ pc = "done"
  /\ width = 2 /\ height = 2
  /\ Len(words) = 2
  /\ words[2] = <<66, 97, 66>>
  /\ added = <<TRUE, FALSE>>
  /\ words[1] # <<>>

\* C8: generate_empty_puzzle(width, height) yields height rows of width
\* blank cells for all width, height >= 0, and the grid keeps height rows of
\* width cells through every placement and through the filler.
C8_GridKeepsItsShape ==
  /\ (pc = "for_word" /\ before = <<>>) =>
       /\ Len(puzzle) = height
       /\ \A r \in 1..Len(puzzle) :
            Len(puzzle[r]) = width /\ \A c \in 1..width : puzzle[r][c] = Blank
  /\ pc # "generate_empty_puzzle" =>
       /\ Len(puzzle) = height
       /\ \A r \in 1..Len(puzzle) : Len(puzzle[r]) = width

\* A grid that is not square went through a placement and the filler.
C8_Witness ==
  /\ pc = "done"
  /\ width = 1 /\ height = 3
  /\ \E i \in 1..Len(words) : added[i] /\ words[i] # <<>>
  /\ HasBlank(LastBefore)

\* The pairs of a sequence of tested pairs are pairwise different.
NoPairTwice(seq) ==
  Cardinality({ seq[i] : i \in 1..Len(seq) }) = Len(seq)

\* C9: for width, height >= 1 the search loop of add_word_to_puzzle is left
\* after at most width * height * 8 fit tests, no pair is tested twice, and
\* it returns false exactly when the sweep is back at the original pair
\* without a fit.
C9_SearchLoopIsBounded ==
  /\ pc # "looping"
  /\ pc = "add_word_returned" =>
       /\ Len(tested) >= 1
       /\ Len(tested) <= width * height * 8
       /\ tested[1] = <<original_coordinate, original_direction>>
       /\ NoPairTwice(tested)
       /\ \A k \in 1..(Len(tested) - 1) :
            ~RunFree(LastBefore, tested[k][1], tested[k][2], Len(CurrentWord))
       /\ value =>
            /\ tested[Len(tested)] = <<coordinate, direction>>
            /\ RunFree(LastBefore, coordinate, direction, Len(CurrentWord))
       /\ ~value =>
            /\ Len(tested) = width * height * 8
            /\ ~RunFree(LastBefore, tested[Len(tested)][1],
                        tested[Len(tested)][2], Len(CurrentWord))
            /\ coordinate = original_coordinate
            /\ direction = original_direction

\* A full sweep of a 2x2 grid that holds a letter, from a start pair other
\* than ((0, 0), Up), ended without a fit.
C9_Witness ==
  /\ pc = "add_word_returned"
  /\ ~value
  /\ width = 2 /\ height = 2
  /\ Len(tested) = 32
  /\ HasLetter(LastBefore) /\ HasBlank(LastBefore)
  /\ original_coordinate = Coordinate(1, 0)
  /\ original_direction = Left

\* C10: with width = 0 or height = 0 and a non-empty list of words,
\* generate_puzzle panics while it picks the start coordinate for the first
\* word, before any fit test, and returns nothing; with an empty list it
\* returns the zero-size grid and an empty words_not_placed.
C10_ZeroSizeGridPanics ==
  (width = 0 \/ height = 0) =>
    /\ words # <<>> =>
         /\ pc \in {"generate_empty_puzzle", "for_word", "panicked"}
         /\ result = NoResult
         /\ word_index = 1 /\ added = <<>> /\ tested = <<>>
         /\ pc = "for_word" =>
              /\ ENABLED AddWordPanics
              /\ ~ENABLED AddWordToPuzzle
              /\ ~ENABLED RemoveEmptySpots
    /\ (words = <<>> /\ pc = "done") =>
         /\ result.words_not_placed = <<>>
         /\ Len(result.puzzle) = height
         /\ \A r \in 1..height : result.puzzle[r] = <<>>
    /\ (words = <<>> /\ pc = "for_word") => ENABLED RemoveEmptySpots

\* The only word is the empty string, the grid has rows but no columns.
C10_Witness ==
  /\ pc = "panicked"
  /\ width = 0 /\ height = 2
  /\ words = << <<>> >>
  /\ result = NoResult

\* The k-th pair (k = 0 is the start pair) of the sweep from (oc, od) over a
\* grid of w columns and h rows: the 8 directions cyclically from od at oc,
\* then the same at each following cell in raster order.
SweepPair(oc, od, w, h, k) ==
  LET index == (oc.row * w + oc.column + (k \div 8)) % (w * h)
  IN  <<Coordinate(index \div w, index % w), ((od - 1 + (k % 8)) % 8) + 1>>

\* C14: for width, height >= 1, add_word_to_puzzle returns false only if, on
\* the grid of that attempt, the word fits at none of the width * height * 8
\* pairs; when it succeeds the word is written at the first fitting pair in
\* sweep order from the random start pair.
C14_SweepIsExhaustive ==
  (pc = "add_word_returned" /\ width >= 1 /\ height >= 1) =>
    /\ ~value =>
         \A c \in Cells(LastBefore), d \in Directions :
           ~RunFree(LastBefore, c, d, Len(CurrentWord))
    /\ value =>
         \E k \in 0..(width * height * 8 - 1) :
           /\ SweepPair(original_coordinate, original_direction,
                        width, height, k) = <<coordinate, direction>>
           /\ RunFree(LastBefore, coordinate, direction, Len(CurrentWord))
           /\ \A j \in 0..(k - 1) :
                LET pair == SweepPair(original_coordinate, original_direction,
                                      width, height, j)
                IN  ~RunFree(LastBefore, pair[1], pair[2], Len(CurrentWord))
           /\ SpelledAt(puzzle, Uppercased(CurrentWord), coordinate, direction)

\* The sweep started at the last cell of a 2x2 grid, went through all its 8
\* directions without a fit, wrapped to (0, 0) and placed the word there.
C14_Witness ==
  /\ pc = "add_word_returned"
  /\ value
  /\ width = 2 /\ height = 2
  /\ CurrentWord # <<>>
  /\ original_coordinate = Coordinate(1, 1)
  /\ original_direction = DownLeft
  /\ coordinate = Coordinate(0, 0)
  /\ Len(tested) > 8

\* C18: an attempt that fails leaves the grid cell for cell as it was, and
\* an empty word on a grid with width, height >= 1 succeeds, is never
\* reported in words_not_placed and leaves every cell unchanged.
C18_FailedAttemptChangesNothing ==
  /\ (pc = "add_word_returned" /\ ~value) => puzzle = LastBefore
  /\ (pc = "add_word_returned" /\ CurrentWord = <<>>) =>
       value /\ puzzle = LastBefore
  /\ pc = "done" =>
       /\ \A i \in 1..Len(words) :
            /\ ~added[i] => before[i + 1] = before[i]
            /\ words[i] = <<>> => added[i] /\ before[i + 1] = before[i]
       /\ ~InSeq(<<>>, result.words_not_placed)

\* An attempt failed on a grid with a blank cell, and an empty word was
\* attempted on a grid without one.
C18_Witness ==
  /\ pc = "done"
  /\ Len(words) = 2
  /\ words[2] = <<>>
  /\ ~HasBlank(before[2])
  /\ added = <<TRUE, TRUE>>

IsUnit(function) == unit # NoUnit /\ unit.function = function

\* C15: word_fits(grid, coordinate, direction, n) is true exactly when n = 0
\* or each of the n cells of the run is inside the grid and blank; so it is
\* true for n = 0 at every coordinate, in or out of bounds, and on the blank
\* 10x10 grid from (0, 0) it gives what it_knows_if_a_word_fits expects.
C15_WordFitsIsRunFree ==
  IsUnit("word_fits") =>
    /\ unit.returned =
         (unit.word_length = 0
            \/ RunFree(unit.puzzle, unit.coordinate, unit.direction,
                       unit.word_length))
    /\ unit.word_length = 0 => unit.returned
    /\ (unit.puzzle = [r \in 1..10 |-> [c \in 1..10 |-> Blank]]
          /\ unit.coordinate = Coordinate(0, 0)) =>
         /\ (unit.word_length = 10
               /\ unit.direction \in {Right, Down, DownRight}) => unit.returned
         /\ (unit.word_length = 11 /\ unit.direction = Right) => ~unit.returned
         /\ unit.word_length = 1 => unit.returned
         /\ (unit.word_length = 2
               /\ unit.direction \in {Up, UpLeft, UpRight, Left, DownLeft})
              => ~unit.returned

\* word_fits was called with length 0 at a coordinate outside a grid whose
\* cells all hold a letter.
C15_Witness ==
  /\ IsUnit("word_fits")
  /\ unit.word_length = 0
  /\ unit.puzzle = << <<65, 65>>, <<65, 65>> >>
  /\ unit.coordinate = Coordinate(-1, 2)
  /\ unit.returned

\* The cyclic order of the directions.
CycleOrder ==
  <<Up, Down, Left, Right, UpLeft, UpRight, DownLeft, DownRight>>

PositionIn(seq, x) == CHOOSE i \in 1..Len(seq) : seq[i] = x

\* C16: get_next_direction is one cycle over the 8 directions in the order
\* Up, Down, Left, Right, UpLeft, UpRight, DownLeft, DownRight: 8 advances
\* and no fewer return to the start, each direction is visited once on the
\* way, and DownRight is followed by Up.
C16_DirectionsFormOneCycle ==
  IsUnit("get_next_direction") =>
    /\ \A k \in 1..unit.steps :
         /\ unit.visited[k + 1] =
              CycleOrder[(PositionIn(CycleOrder, unit.visited[k]) % 8) + 1]
         /\ unit.visited[k] = DownRight => unit.visited[k + 1] = Up
    /\ (unit.steps >= 1 /\ unit.steps < 8) => unit.direction # unit.start
    /\ unit.steps = 8 => unit.direction = unit.start
    /\ unit.steps >= 7 =>
         { unit.visited[k] : k \in 1..8 } = Directions

\* 8 advances from UpLeft, through DownRight and Up, back to UpLeft.
C16_Witness ==
  /\ IsUnit("get_next_direction")
  /\ unit.start = UpLeft
  /\ unit.steps = 8
  /\ unit.direction = UpLeft

\* C17: for width, height >= 1 and an in-bounds coordinate,
\* get_next_coordinate_for_size gives the next cell in row-major order: the
\* next column of the row, else column 0 of the next row, else (0, 0);
\* width * height advances visit every cell once and return to the start,
\* and no fewer return to it.
C17_CoordinatesFollowRasterOrder ==
  IsUnit("get_next_coordinate_for_size") =>
    LET w == unit.width
        h == unit.height
    IN  /\ \A k \in 1..unit.steps :
             LET from == unit.visited[k]
                 to == unit.visited[k + 1]
             IN  /\ to.row \in 0..(h - 1) /\ to.column \in 0..(w - 1)
                 /\ to.row * w + to.column
                      = (from.row * w + from.column + 1) % (w * h)
                 /\ to = IF from.column < w - 1
                           THEN Coordinate(from.row, from.column + 1)
                         ELSE IF from.row < h - 1
                           THEN Coordinate(from.row + 1, 0)
                         ELSE Coordinate(0, 0)
        /\ (unit.steps >= 1 /\ unit.steps < w * h) =>
             unit.coordinate # unit.start
        /\ unit.steps = w * h =>
             /\ unit.coordinate = unit.start
             /\ { unit.visited[k] : k \in 1..(w * h) }
                  = { Coordinate(r, c) : r \in 0..(h - 1), c \in 0..(w - 1) }

\* A full round of the 2x2 grid from (1, 0).
C17_Witness ==
  /\ IsUnit("get_next_coordinate_for_size")
  /\ unit.width = 2 /\ unit.height = 2
  /\ unit.start = Coordinate(1, 0)
  /\ unit.steps = 4
  /\ unit.visited = <<Coordinate(1, 0), Coordinate(1, 1), Coordinate(0, 0),
                      Coordinate(0, 1), Coordinate(1, 0)>>

\* The field held no number when the form was submitted.
NotNumeric(text) == parse_i16(input_value(text)).ok = FALSE

\* The occurrences of words whose attempt returned true, uppercased, in
\* input order.
PlacedOccurrences(split_words, flags) ==
  LET indices == SelectSeq([i \in 1..Len(split_words) |-> i],
                           LAMBDA i : flags[i])
  IN  [k \in 1..Len(indices) |-> Uppercased(split_words[indices[k]])]

\* C11: a submit made while the width field or the height field holds a
\* non-numeric or missing value does not invoke generate_puzzle; it sets the
\* error 'Invalid width or height' and clears the grid and the placed-word
\* list, also after a valid number was replaced by such a value.
C11_InvalidFieldNeverReachesGenerator ==
  (submit # NoSubmit
     /\ (NotNumeric(submit.fields.width) \/ NotNumeric(submit.fields.height)))
    => /\ ~submit.invoked
       /\ app.error = "Invalid width or height"
       /\ app.puzzle_state = <<>>
       /\ app.placed_words = <<>>

\* C12: a submit calls generate_puzzle only with width and height both in
\* the range 1..100 of the form.
C12_OnlyValidatedDimensionsReachGenerator ==
  (submit # NoSubmit /\ submit.invoked) =>
    /\ submit.width \in MinDimension..MaxDimension
    /\ submit.height \in MinDimension..MaxDimension

\* C13: after a submit that reached the generator, the placed-word list is
\* the placed occurrences of the input words, uppercased and in input
\* order, and the error is 'Could not place all words' exactly when a word
\* failed, and empty otherwise.
C13_PlacedListIsThePlacedOccurrences ==
  (submit # NoSubmit /\ submit.returned) =>
    /\ app.placed_words = PlacedOccurrences(submit.words, submit.added)
    /\ app.error = IF \E i \in 1..Len(submit.added) : ~submit.added[i]
                     THEN "Could not place all words"
                   ELSE ""

====
